---------------------------- MODULE Spec2Model ----------------------------
(***************************************************************************)
(* Model of app.py, the food waste dashboard: a Streamlit script that      *)
(* loads and cleans a CSV file and renders a map, two rankings, a country  *)
(* breakdown and a k-means scatter plot.  The script runs top to bottom    *)
(* and is run again whenever the user changes the country selector.        *)
(*                                                                         *)
(* Numbers are fixed point with one binary fractional digit: the integer   *)
(* n stands for n/2 kg/capita/year, so that the median of an even number   *)
(* of integer estimates is exact.  NaN stands for pandas' missing value.   *)
(***************************************************************************)
EXTENDS Integers, Sequences, FiniteSets, TLC

VARIABLES
    fs,                \* the file food_waste_data.csv: its status and raw rows
    cache,             \* st.cache_data's memo of load_data: <<>> or <<entry>>
    heap,              \* the DataFrame objects of the running script
    env,               \* the script's names, each a reference into heap (0: unbound)
    widget,            \* the selectbox's session state ("": never touched)
    selected_country,  \* the script's selected_country ("": not yet assigned)
    labels,            \* kmeans.labels_ (<<>>: not fitted)
    page,              \* the elements rendered by the current run
    pc                 \* the script's position

vars == <<fs, cache, heap, env, widget, selected_country, labels, page, pc>>

-----------------------------------------------------------------------------
(* Bounds of the model. *)

\* rows of the file in the session specification
MaxRows == 3
\* rows of the file in the loader specification
MaxLoadRows == 2
\* rows of the file in the ranking specification
MaxRankRows == 12

-----------------------------------------------------------------------------
(* Column names and values. *)

COUNTRY == "Country"
COMBINED == "combined figures (kg/capita/year)"
HOUSEHOLD == "Household estimate (kg/capita/year)"
RETAIL == "Retail estimate (kg/capita/year)"
FOOD_SERVICE == "Food service estimate (kg/capita/year)"
CLUSTER == "Cluster"
SECTOR == "Sector"
WASTE == "Waste (kg/capita/year)"

file_columns == <<COUNTRY, COMBINED, HOUSEHOLD, RETAIL, FOOD_SERVICE>>
numeric_cols == <<COMBINED, HOUSEHOLD, RETAIL, FOOD_SERVICE>>
features == <<HOUSEHOLD, RETAIL, FOOD_SERVICE>>

\* the missing value of a numeric column (every estimate is >= 0)
NaN == -1
\* the missing value of the Country column
NaNStr == "<NaN>"

\* the columns that hold text; the others hold numbers
text_columns == {COUNTRY, SECTOR, CLUSTER}

\* pd.isna on the cell v of column col
IsNull(col, v) == IF col \in text_columns THEN v = NaNStr ELSE v = NaN

n_clusters == 3
TopN == 10

Range(s) == {s[i] : i \in 1..Len(s)}

-----------------------------------------------------------------------------
(* pd.read_csv and pd.to_numeric on the cells of the file.  A numeric cell *)
(* of the file is its text, a tuple of characters.                         *)

Digits == <<"0", "1", "2", "3", "4", "5", "6", "7", "8", "9">>

IsDigit(c) == \E d \in 1..10 : Digits[d] = c

DigitVal(c) == (CHOOSE d \in 1..10 : Digits[d] = c) - 1

\* the integer written by a non-empty tuple of digits
RECURSIVE ParseInt(_)
ParseInt(text) ==
    IF Len(text) = 1 THEN DigitVal(text[1])
    ELSE 10 * ParseInt(SubSeq(text, 1, Len(text) - 1)) + DigitVal(text[Len(text)])

\* the text of a natural number
RECURSIVE ToDigits(_)
ToDigits(n) ==
    IF n < 10 THEN <<Digits[n + 1]>>
    ELSE Append(ToDigits(n \div 10), Digits[(n % 10) + 1])

\* pd.to_numeric(errors='coerce') on one cell: a number, or NaN for an
\* empty or unparseable cell (never an error)
ToNumeric(text) ==
    IF text # <<>> /\ \A i \in 1..Len(text) : IsDigit(text[i])
    THEN 2 * ParseInt(text)
    ELSE NaN

\* the texts pd.read_csv reads as a missing value in a string column
NaTexts == {"", "NA", "N/A", "NaN", "null"}

ReadCountry(text) == IF text \in NaTexts THEN NaNStr ELSE text

\* one row of the file, read and coerced (lines 26 and 41-42)
CoerceRow(raw) ==
    [c \in Range(file_columns) |->
        IF c \in Range(numeric_cols) THEN ToNumeric(raw[c]) ELSE ReadCountry(raw[c])]

-----------------------------------------------------------------------------
(* DataFrames.  A frame has its column names, its index (the label *)
(* of each row: the 0-based position the row had in the file) and its rows.*)

Frame(cols, index, rows) == [columns |-> cols, index |-> index, rows |-> rows]

\* pd.DataFrame(): no columns, no rows
EmptyFrame == Frame(<<>>, <<>>, <<>>)

\* DataFrame.empty: some axis has length 0
IsEmpty(f) == Len(f.columns) = 0 \/ Len(f.rows) = 0

\* the positions of s, in order
Positions(s) == [i \in 1..Len(s) |-> i]

\* the frame's rows at the given positions, in that order
Take(f, order) ==
    Frame(f.columns,
          [k \in 1..Len(order) |-> f.index[order[k]]],
          [k \in 1..Len(order) |-> f.rows[order[k]]])

\* dropna with a subset that also names a sector column
DropSubsetNullWide(row) ==
    \/ IsNull(COUNTRY, row[COUNTRY])
    \/ IsNull(COMBINED, row[COMBINED])
    \/ IsNull(HOUSEHOLD, row[HOUSEHOLD])

\* df.dropna(subset=[...]): a row is dropped when one of the subset's cells is null
DropSubsetNull(row) == IsNull(COUNTRY, row[COUNTRY]) \/ IsNull(COMBINED, row[COMBINED])

\* df.dropna(subset=['Country', 'combined figures (kg/capita/year)'], inplace=True)
DropNa(f) ==
    LET Keep(i) == ~DropSubsetNull(f.rows[i])
    IN  Take(f, SelectSeq(Positions(f.rows), Keep))

\* pd.read_csv and the to_numeric loop (lines 26 and 41-42)
ReadFrame(raw_rows) ==
    Frame(file_columns,
          [i \in 1..Len(raw_rows) |-> i - 1],
          [i \in 1..Len(raw_rows) |-> CoerceRow(raw_rows[i])])

\* the body of load_data for a file that was read
CleanFrame(raw_rows) == DropNa(ReadFrame(raw_rows))

-----------------------------------------------------------------------------
(* The script's names. *)

NoEnv ==
    [df |-> 0, top_10_waste |-> 0, bottom_10_waste |-> 0, sector_df |-> 0,
     cluster_data |-> 0, plot_df |-> 0]

\* a new object holding frame f: the heap after, and the reference
Alloc(h, f) == Append(h, f)
NewRef(h) == Len(h) + 1

\* an assignment without copy(): the same object under another name
AliasOf(h, ref) == [heap |-> h, ref |-> ref]

\* DataFrame.copy(): a new object with the same contents
CopyOf(h, ref) == [heap |-> Alloc(h, h[ref]), ref |-> NewRef(h)]

-----------------------------------------------------------------------------
(* Lines 50 and 20-46: df = load_data('food_waste_data.csv').              *)
(* st.cache_data stores the return value and the elements the call         *)
(* rendered, and gives every caller its own copy of the stored value.      *)

\* a script without the df.empty check
ShouldStopNever(f) == FALSE

\* lines 53-54: whether the script stops after load
ShouldStop(f) == IsEmpty(f)

LoadData ==
    /\ pc = "start"
    /\ IF cache # <<>>
       THEN \* memoized: the stored value is copied, the stored elements replayed
            /\ heap' = Alloc(heap, cache[1].value)
            /\ env' = [env EXCEPT !.df = NewRef(heap)]
            /\ page' = page \cup cache[1].elements
            /\ pc' = "check"
            /\ cache' = cache
       ELSE CASE fs.status = "missing" ->
                 \* lines 27-30: st.error and an empty fallback frame
                 /\ heap' = Alloc(heap, EmptyFrame)
                 /\ env' = [env EXCEPT !.df = NewRef(heap)]
                 /\ page' = page \cup {"error"}
                 /\ cache' = <<[value |-> EmptyFrame, elements |-> {"error"}]>>
                 /\ pc' = "check"
              [] fs.status = "unreadable" ->
                 \* any other exception of read_csv is not caught
                 /\ pc' = "crashed"
                 /\ page' = page \cup {"exception"}
                 /\ UNCHANGED <<heap, env, cache>>
              [] fs.status = "ok" ->
                 /\ heap' = Alloc(heap, CleanFrame(fs.rows))
                 /\ env' = [env EXCEPT !.df = NewRef(heap)]
                 /\ cache' = <<[value |-> CleanFrame(fs.rows), elements |-> {}]>>
                 /\ pc' = "check"
                 /\ page' = page
    /\ UNCHANGED <<fs, widget, selected_country, labels>>

\* lines 53-54: if df.empty: st.stop()
CheckEmpty ==
    /\ pc = "check"
    /\ pc' = IF ShouldStop(heap[env.df]) THEN "stopped" ELSE "map"
    /\ UNCHANGED <<fs, cache, heap, env, widget, selected_country, labels, page>>

-----------------------------------------------------------------------------
(* Lines 65-83: the choropleth map. *)

RenderMap ==
    /\ pc = "map"
    /\ page' = page \cup {"map"}
    /\ pc' = "top"
    /\ UNCHANGED <<fs, cache, heap, env, widget, selected_country, labels>>

-----------------------------------------------------------------------------
(* Lines 95 and 109: df.sort_values(by=..., ascending=...).head(10).       *)
(* sort_values is called without kind, so it sorts with the default        *)
(* 'quicksort', which is not a stable sort: rows with equal keys come out  *)
(* in an order the build decides.  Missing keys sort last.                 *)

\* key a sorts strictly before key b
StrictBefore(a, b, ascending) ==
    IF a = NaN THEN FALSE
    ELSE IF b = NaN THEN TRUE
    ELSE IF ascending THEN a < b ELSE a > b

\* every order of the positions S of keys that is sorted
RECURSIVE SortedOrders(_, _, _)
SortedOrders(keys, S, ascending) ==
    IF S = {} THEN {<<>>}
    ELSE LET first == {i \in S : \A j \in S : ~StrictBefore(keys[j], keys[i], ascending)}
         IN  UNION {{<<i>> \o rest : rest \in SortedOrders(keys, S \ {i}, ascending)} :
                    i \in first}

\* the frames sort_values(by=col, ascending=...) may return
SortValues(f, col, ascending) ==
    LET keys == [i \in 1..Len(f.rows) |-> f.rows[i][col]]
    IN  {Take(f, order) : order \in SortedOrders(keys, 1..Len(f.rows), ascending)}

\* head() taking one row too many
HeadRowsOneMore(f, n) ==
    Take(f, [k \in 1..(IF Len(f.rows) < n + 1 THEN Len(f.rows) ELSE n + 1) |-> k])

\* DataFrame.head(n)
HeadRows(f, n) ==
    Take(f, [k \in 1..(IF Len(f.rows) < n THEN Len(f.rows) ELSE n) |-> k])

\* lines 93-105
RenderTop10 ==
    /\ pc = "top"
    /\ \E sorted \in SortValues(heap[env.df], COMBINED, FALSE) :
          /\ heap' = Alloc(heap, HeadRows(sorted, TopN))
          /\ env' = [env EXCEPT !.top_10_waste = NewRef(heap)]
    /\ page' = page \cup {"top10"}
    /\ pc' = "bottom"
    /\ UNCHANGED <<fs, cache, widget, selected_country, labels>>

\* lines 107-119
RenderBottom10 ==
    /\ pc = "bottom"
    /\ \E sorted \in SortValues(heap[env.df], COMBINED, TRUE) :
          /\ heap' = Alloc(heap, HeadRows(sorted, TopN))
          /\ env' = [env EXCEPT !.bottom_10_waste = NewRef(heap)]
    /\ page' = page \cup {"bottom10"}
    /\ pc' = "detail"
    /\ UNCHANGED <<fs, cache, widget, selected_country, labels>>

-----------------------------------------------------------------------------
(* Lines 127-152: the breakdown of the selected country. *)

\* every country name of the model, in sorted() order (capitals first)
Alphabet ==
    <<"Austria", "Brazil", "Chad", "Denmark", "Egypt", "Fiji", "Ghana", "Haiti",
      "India", "Japan", "Kenya", "Laos", "Mali", "Nepal", "Oman", "Peru",
      "austria">>

\* sorted(df['Country'].unique())
CountryList(f) ==
    LET Present(c) == \E i \in 1..Len(f.rows) : f.rows[i][COUNTRY] = c
    IN  SelectSeq(Alphabet, Present)

\* st.selectbox: the user's choice, or the first option until they make one
SelectBox(options, state) ==
    IF options = <<>> THEN ""
    ELSE IF state \in Range(options) THEN state ELSE options[1]

\* the last matching row instead of the first
CountryDataLast(f, country) ==
    LET Is(i) == f.rows[i][COUNTRY] = country
        found == SelectSeq(Positions(f.rows), Is)
    IN  f.rows[found[Len(found)]]

\* df[df['Country'] == selected_country].iloc[0]
CountryData(f, country) ==
    LET Is(i) == f.rows[i][COUNTRY] = country
    IN  f.rows[SelectSeq(Positions(f.rows), Is)[1]]

\* pd.DataFrame(sector_data)
SectorData(row) ==
    Frame(<<SECTOR, WASTE>>, <<0, 1, 2>>,
          << [c \in {SECTOR, WASTE} |-> IF c = SECTOR THEN "Household" ELSE row[HOUSEHOLD]],
             [c \in {SECTOR, WASTE} |-> IF c = SECTOR THEN "Retail" ELSE row[RETAIL]],
             [c \in {SECTOR, WASTE} |-> IF c = SECTOR THEN "Food Service" ELSE row[FOOD_SERVICE]] >>)

\* DataFrame.dropna(): the rows without any null cell
DropNaAny(f) ==
    LET Keep(i) == \A c \in Range(f.columns) : ~IsNull(c, f.rows[i][c])
    IN  Take(f, SelectSeq(Positions(f.rows), Keep))

CountryDetail ==
    /\ pc = "detail"
    /\ LET country_list == CountryList(heap[env.df])
           selected == SelectBox(country_list, widget)
       IN  /\ selected_country' = selected
           /\ IF selected # ""
              THEN LET sector_df == DropNaAny(SectorData(CountryData(heap[env.df], selected)))
                   IN  /\ heap' = Alloc(heap, sector_df)
                       /\ env' = [env EXCEPT !.sector_df = NewRef(heap)]
                       /\ page' = page \cup {IF ~IsEmpty(sector_df) THEN "pie" ELSE "warning"}
              ELSE UNCHANGED <<heap, env, page>>
    /\ pc' = "prepare"
    /\ UNCHANGED <<fs, cache, widget, labels>>

-----------------------------------------------------------------------------
(* Lines 160-166: the features, with missing values filled by the median. *)

\* df[features]: a new frame with only these columns
Project(f, cols) ==
    Frame(cols, f.index,
          [i \in 1..Len(f.rows) |-> [c \in Range(cols) |-> f.rows[i][c]]])

\* Series.median(): the median of the non-null values, NaN when there is none
Median(f, col) ==
    LET NotNull(v) == v # NaN
        present == SelectSeq([i \in 1..Len(f.rows) |-> f.rows[i][col]], NotNull)
        sorted == SortSeq(present, LAMBDA a, b : a < b)
        n == Len(sorted)
    IN  IF n = 0 THEN NaN
        ELSE IF n % 2 = 1 THEN sorted[(n + 1) \div 2]
        ELSE (sorted[n \div 2] + sorted[(n \div 2) + 1]) \div 2

\* cluster_data[feature].fillna(value, inplace=True); filling with NaN fills nothing
FillNa(f, col, value) ==
    [f EXCEPT !.rows =
        [i \in 1..Len(f.rows) |->
            [f.rows[i] EXCEPT ![col] = IF @ = NaN THEN value ELSE @]]]

\* the loop of lines 164-166 over features[k..]
RECURSIVE FillFeatures(_, _)
FillFeatures(f, k) ==
    IF k > Len(features) THEN f
    ELSE FillFeatures(FillNa(f, features[k], Median(f, features[k])), k + 1)

PrepareCluster ==
    /\ pc = "prepare"
    /\ LET projected == Alloc(heap, Project(heap[env.df], features))
           copy == CopyOf(projected, NewRef(heap))
       IN  /\ heap' = [copy.heap EXCEPT ![copy.ref] = FillFeatures(@, 1)]
           /\ env' = [env EXCEPT !.cluster_data = copy.ref]
    /\ pc' = "fit"
    /\ UNCHANGED <<fs, cache, widget, selected_country, labels, page>>

-----------------------------------------------------------------------------
(* Lines 169-174: StandardScaler and KMeans.  The scaler lets missing      *)
(* values through; KMeans.fit raises a ValueError when its input holds a   *)
(* missing value or has fewer samples than clusters, and otherwise gives   *)
(* every sample one label in 0..n_clusters-1.  Which label is decided      *)
(* inside the library.                                                     *)

HasNaN(f) == \E i \in 1..Len(f.rows) : \E c \in Range(f.columns) : f.rows[i][c] = NaN

KMeansRaises(f) == HasNaN(f) \/ Len(f.rows) < n_clusters

KMeansLabels(f) == [1..Len(f.rows) -> 0..(n_clusters - 1)]

FitKMeans ==
    /\ pc = "fit"
    /\ IF KMeansRaises(heap[env.cluster_data])
       THEN /\ pc' = "crashed"
            /\ page' = page \cup {"exception"}
            /\ labels' = labels
       ELSE /\ labels' \in KMeansLabels(heap[env.cluster_data])
            /\ pc' = "plot"
            /\ page' = page
    /\ UNCHANGED <<fs, cache, heap, env, widget, selected_country>>

-----------------------------------------------------------------------------
(* Lines 177-190: the labels are attached to a copy of df and plotted. *)

\* astype(str) on a cluster label
AsTypeStr(n) == Digits[n + 1]

\* the first value assigned to every row
SetColumnBroadcast(f, col, values) ==
    [columns |-> IF col \in Range(f.columns) THEN f.columns ELSE Append(f.columns, col),
     index |-> f.index,
     rows |-> [i \in 1..Len(f.rows) |->
                 [c \in DOMAIN f.rows[i] \cup {col} |->
                     IF c = col THEN values[1] ELSE f.rows[i][c]]]]

\* frame[col] = values: the values are assigned by position
SetColumn(f, col, values) ==
    [columns |-> IF col \in Range(f.columns) THEN f.columns ELSE Append(f.columns, col),
     index |-> f.index,
     rows |-> [i \in 1..Len(f.rows) |->
                 [c \in DOMAIN f.rows[i] \cup {col} |->
                     IF c = col THEN values[i] ELSE f.rows[i][c]]]]

PlotClusters ==
    /\ pc = "plot"
    /\ LET copy == CopyOf(heap, env.df)
           with_labels == SetColumn(copy.heap[copy.ref], CLUSTER, labels)
           as_str == SetColumn(with_labels, CLUSTER,
                               [i \in 1..Len(labels) |-> AsTypeStr(with_labels.rows[i][CLUSTER])])
       IN  /\ heap' = [copy.heap EXCEPT ![copy.ref] = as_str]
           /\ env' = [env EXCEPT !.plot_df = copy.ref]
    /\ page' = page \cup {"scatter"}
    /\ pc' = "done"
    /\ UNCHANGED <<fs, cache, widget, selected_country, labels>>

-----------------------------------------------------------------------------
(* Streamlit runs the script again, from the top and with fresh names,     *)
(* when the user picks another country; a browser reload starts a new      *)
(* session of the same process, which keeps load_data's memo.              *)

Restart(state) ==
    /\ widget' = state
    /\ heap' = <<>>
    /\ env' = NoEnv
    /\ selected_country' = ""
    /\ labels' = <<>>
    /\ page' = {}
    /\ pc' = "start"
    /\ UNCHANGED <<fs, cache>>

UserSelects ==
    /\ pc = "done"
    /\ \E c \in Range(CountryList(heap[env.df])) \ {selected_country} : Restart(c)

Reload ==
    /\ pc \in {"done", "stopped", "crashed"}
    /\ Restart("")

-----------------------------------------------------------------------------
(* The files. *)

RawRow(country, combined, household, retail, food) ==
    [c \in Range(file_columns) |->
        CASE c = COUNTRY -> country
          [] c = COMBINED -> combined
          [] c = HOUSEHOLD -> household
          [] c = RETAIL -> retail
          [] c = FOOD_SERVICE -> food]

SeqsUpTo(S, n) == UNION {[1..k -> S] : k \in 0..n}

\* the sequences of at most n elements of S, none twice
DistinctSeqsUpTo(S, n) ==
    {r \in SeqsUpTo(S, n) : \A i, j \in 1..Len(r) : i # j => r[i] # r[j]}

\* the rows a session's file is made of, each at most once: a full row, a
\* row without household estimate, a second row of a country without any
\* sector estimate (and a tie in the combined estimate), a row with an
\* unparseable combined estimate, a row without country, and a row with an
\* unparseable and an empty sector cell whose country differs from another
\* only in case
SessionRows ==
    { RawRow("Austria", <<"1", "0">>, <<"6">>, <<"2">>, <<"2">>),
      RawRow("Brazil", <<"2", "0">>, <<>>, <<"8">>, <<"0">>),
      RawRow("Austria", <<"1", "0">>, <<>>, <<>>, <<>>),
      RawRow("Chad", <<"n", "/", "a">>, <<"4">>, <<"2">>, <<"2">>),
      RawRow("", <<"3", "0">>, <<"2">>, <<"2">>, <<"2">>),
      RawRow("austria", <<"3", "0">>, <<"1", "2">>, <<"x">>, <<>>) }

SessionFiles ==
    {[status |-> "missing", rows |-> <<>>], [status |-> "unreadable", rows |-> <<>>]}
    \cup {[status |-> "ok", rows |-> r] : r \in DistinctSeqsUpTo(SessionRows, MaxRows)}

InitWith(files) ==
    /\ fs \in files
    /\ cache = <<>>
    /\ heap = <<>>
    /\ env = NoEnv
    /\ widget = ""
    /\ selected_country = ""
    /\ labels = <<>>
    /\ page = {}
    /\ pc = "start"

Init == InitWith(SessionFiles)

Next ==
    \/ LoadData
    \/ CheckEmpty
    \/ RenderMap
    \/ RenderTop10
    \/ RenderBottom10
    \/ CountryDetail
    \/ PrepareCluster
    \/ FitKMeans
    \/ PlotClusters
    \/ UserSelects
    \/ Reload

Spec == Init /\ [][Next]_vars

-----------------------------------------------------------------------------
(* The loader on its own: files made of every combination of cells. *)

LoadRows ==
    { RawRow(country, combined, household, rest, rest) :
        country \in {"", "Austria"},
        combined \in {<<>>, <<"n", "/", "a">>, <<"7">>},
        household \in {<<>>, <<"x">>, <<"1", "5">>},
        rest \in {<<>>, <<"3">>} }

LoadFiles ==
    {[status |-> "missing", rows |-> <<>>], [status |-> "unreadable", rows |-> <<>>]}
    \cup {[status |-> "ok", rows |-> r] : r \in SeqsUpTo(LoadRows, MaxLoadRows)}

InitLoad == InitWith(LoadFiles)

NextLoad ==
    \/ LoadData
    \/ CheckEmpty
    \/ Reload

SpecLoad == InitLoad /\ [][NextLoad]_vars

-----------------------------------------------------------------------------
(* The rankings on their own: files of up to MaxRankRows countries whose   *)
(* combined estimates are all different, but for one pair of rows (p, q)   *)
(* that may share an estimate.                                             *)

RankValue(pattern, n, i) ==
    CASE pattern = "ascending" -> i
      [] pattern = "descending" -> n + 1 - i
      [] pattern = "mixed" -> (i * 5) % 17

RankFile(pattern, n, p, q) ==
    [status |-> "ok",
     rows |-> [i \in 1..n |->
                 RawRow(Alphabet[i],
                        ToDigits(RankValue(pattern, n, IF i = q THEN p ELSE i)),
                        <<>>, <<>>, <<>>)]]

RankFiles ==
    UNION { { RankFile(pattern, n, p, q) :
                pattern \in {"ascending", "descending", "mixed"},
                p \in 1..(IF n = 0 THEN 1 ELSE n), q \in 1..(IF n = 0 THEN 1 ELSE n) } :
            n \in 0..MaxRankRows }

InitRank == InitWith(RankFiles)

NextRank ==
    \/ LoadData
    \/ CheckEmpty
    \/ RenderMap
    \/ RenderTop10
    \/ RenderBottom10

SpecRank == InitRank /\ [][NextRank]_vars

-----------------------------------------------------------------------------
(* Properties of the dashboard. *)

Bound(name) == env[name] # 0
Obj(name) == heap[env[name]]

Views == {"map", "top10", "bottom10", "pie", "warning", "scatter"}

\* the cell of the file read as a number: a non-empty text of digits only
Parses(text) == text # <<>> /\ \A i \in 1..Len(text) : \E d \in 1..10 : text[i] = Digits[d]

\* C1: a row of the file is in the cleaned dataset iff its Country and its
\* combined estimate are non-null after coercion, whatever its sector cells;
\* the kept rows keep their order and their coerced values, and coercion
\* raises nothing.
C1_RowKeptIffCountryAndCombined ==
    (fs.status = "ok" /\ pc # "start") =>
        /\ pc # "crashed"
        /\ Bound("df")
        /\ \A i \in 1..Len(fs.rows) :
              (i - 1 \in Range(Obj("df").index))
                  <=> (fs.rows[i][COUNTRY] \notin NaTexts /\ Parses(fs.rows[i][COMBINED]))
        /\ \A k \in 1..Len(Obj("df").index) :
              /\ Obj("df").rows[k] = CoerceRow(fs.rows[Obj("df").index[k] + 1])
              /\ k > 1 => Obj("df").index[k - 1] < Obj("df").index[k]

\* a file of two rows: the first is kept although its household cell is
\* unparseable and its other sector cells are empty, the second is dropped
\* although all its sector cells are numbers
C1_Witness ==
    /\ fs.status = "ok" /\ pc = "map" /\ Len(fs.rows) = 2
    /\ Obj("df").index = <<0>>
    /\ fs.rows[1][HOUSEHOLD] = <<"x">> /\ fs.rows[1][RETAIL] = <<>>
    /\ Obj("df").rows[1][HOUSEHOLD] = NaN
    /\ fs.rows[2][COMBINED] = <<"n", "/", "a">>
    /\ fs.rows[2][HOUSEHOLD] = <<"1", "5">> /\ fs.rows[2][RETAIL] = <<"3">>

\* C2: when the file is missing or unreadable the failure is shown, no
\* dataset with rows exists, and the map, the rankings, the country detail
\* and the clustering never run.
C2_MissingFileHaltsRendering ==
    fs.status # "ok" =>
        /\ pc \in {"start", "check", "stopped", "crashed"}
        /\ page \cap Views = {}
        /\ pc # "start" => page \cap {"error", "exception"} # {}
        /\ Bound("df") => Obj("df").rows = <<>>
        /\ \A name \in DOMAIN env \ {"df"} : ~Bound(name)
        /\ labels = <<>>

C2_Witness ==
    /\ fs.status = "missing" /\ pc = "stopped"
    /\ "error" \in page /\ cache # <<>> /\ IsEmpty(Obj("df"))

\* the ranking ranked: the head of the dataset sorted by combined estimate
RankingOk(ranked, f, ascending) ==
    /\ Len(ranked.rows) = (IF Len(f.rows) < 10 THEN Len(f.rows) ELSE 10)
    /\ \A k \in 1..(Len(ranked.rows) - 1) :
          IF ascending
          THEN ranked.rows[k][COMBINED] <= ranked.rows[k + 1][COMBINED]
          ELSE ranked.rows[k][COMBINED] >= ranked.rows[k + 1][COMBINED]
    /\ \A k, l \in 1..Len(ranked.rows) : k # l => ranked.index[k] # ranked.index[l]
    /\ \A k \in 1..Len(ranked.rows) :
          \E i \in 1..Len(f.rows) :
              f.index[i] = ranked.index[k] /\ f.rows[i] = ranked.rows[k]
    /\ \A i \in 1..Len(f.rows) :
          f.index[i] \notin Range(ranked.index) =>
              \A k \in 1..Len(ranked.rows) :
                  IF ascending
                  THEN ranked.rows[k][COMBINED] <= f.rows[i][COMBINED]
                  ELSE ranked.rows[k][COMBINED] >= f.rows[i][COMBINED]

\* C3: the top 10 is in non-increasing and the bottom 10 in non-decreasing
\* order of combined estimate, each has min(10, |dataset|) rows of the
\* dataset, none repeated, and holds the 10 largest (smallest) estimates.
C3_RankingsSortedAndComplete ==
    /\ Bound("top_10_waste") => RankingOk(Obj("top_10_waste"), Obj("df"), FALSE)
    /\ Bound("bottom_10_waste") => RankingOk(Obj("bottom_10_waste"), Obj("df"), TRUE)

\* more than 10 rows, both rankings made, and a row left out of the bottom 10
\* that ties with its last row
C3_Witness ==
    /\ Bound("top_10_waste") /\ Bound("bottom_10_waste")
    /\ Len(Obj("df").rows) > 10
    /\ Len(Obj("bottom_10_waste").rows) = 10
    /\ \E i \in 1..Len(Obj("df").rows) :
          /\ Obj("df").index[i] \notin Range(Obj("bottom_10_waste").index)
          /\ Obj("df").rows[i][COMBINED] = Obj("bottom_10_waste").rows[10][COMBINED]

\* ties in the ranking ranked are in the dataset's row order, also across
\* the ranking's end
TiesInRowOrder(ranked, f) ==
    /\ \A k, l \in 1..Len(ranked.rows) :
          (k < l /\ ranked.rows[k][COMBINED] = ranked.rows[l][COMBINED])
              => ranked.index[k] < ranked.index[l]
    /\ \A i \in 1..Len(f.rows) : \A k \in 1..Len(ranked.rows) :
          (f.index[i] \notin Range(ranked.index)
           /\ f.rows[i][COMBINED] = ranked.rows[k][COMBINED])
              => ranked.index[k] < f.index[i]

\* C4: in both rankings, records with equal combined estimates are in the
\* dataset's original row order (a stable sort), also when the tie
\* straddles the 10th position.
C4_TiesKeepRowOrder ==
    /\ Bound("top_10_waste") => TiesInRowOrder(Obj("top_10_waste"), Obj("df"))
    /\ Bound("bottom_10_waste") => TiesInRowOrder(Obj("bottom_10_waste"), Obj("df"))

SectorColumns ==
    {<<"Household", HOUSEHOLD>>, <<"Retail", RETAIL>>, <<"Food Service", FOOD_SERVICE>>}

\* the first row of f whose Country is country
FirstRowOf(f, country) ==
    f.rows[CHOOSE i \in 1..Len(f.rows) :
              /\ f.rows[i][COUNTRY] = country
              /\ \A j \in 1..(i - 1) : f.rows[j][COUNTRY] # country]

\* C5: the breakdown of the selected country holds exactly the non-null
\* (sector, value) pairs of the first row with that country name; it is
\* empty iff all three are null, and then the warning is shown and no pie.
C5_SectorBreakdownOfFirstMatch ==
    Bound("sector_df") =>
        LET row == FirstRowOf(Obj("df"), selected_country)
            sd == Obj("sector_df")
            got == {<<sd.rows[k][SECTOR], sd.rows[k][WASTE]>> : k \in 1..Len(sd.rows)}
            want == {<<sc[1], row[sc[2]]>> : sc \in {x \in SectorColumns : row[x[2]] # NaN}}
        IN  /\ selected_country \in Range(CountryList(Obj("df")))
            /\ got = want
            /\ Len(sd.rows) = Cardinality(want)
            /\ \A k \in 1..Len(sd.rows) : sd.rows[k][WASTE] # NaN
            /\ (sd.rows = <<>>) <=> (\A sc \in SectorColumns : row[sc[2]] = NaN)
            /\ IF sd.rows = <<>>
               THEN "warning" \in page /\ "pie" \notin page
               ELSE "pie" \in page /\ "warning" \notin page

\* the user picked a country that has two rows: the first has no sector
\* value, the second has, and the warning is shown
C5_Witness ==
    /\ Bound("sector_df") /\ widget # "" /\ selected_country = widget
    /\ "warning" \in page
    /\ \E i \in 1..Len(Obj("df").rows) :
          /\ Obj("df").rows[i][COUNTRY] = selected_country
          /\ Obj("df").rows[i][HOUSEHOLD] # NaN

\* C6: when clustering completes there is one label per row of the dataset,
\* each in {0, 1, 2}, attached to the rows in the order of the feature
\* vectors, also when rows share a country name.
C6_OneLabelPerRow ==
    pc = "done" =>
        LET f == Obj("df")
            x == Obj("cluster_data")
            p == Obj("plot_df")
        IN  /\ Len(labels) = Len(f.rows)
            /\ Len(p.rows) = Len(f.rows)
            /\ Len(x.rows) = Len(f.rows)
            /\ p.index = f.index /\ x.index = f.index
            /\ \A i \in 1..Len(f.rows) :
                  /\ labels[i] \in {0, 1, 2}
                  /\ p.rows[i][COUNTRY] = f.rows[i][COUNTRY]
                  /\ p.rows[i][CLUSTER] = <<"0", "1", "2">>[labels[i] + 1]
                  /\ \A c \in Range(features) :
                        f.rows[i][c] # NaN => x.rows[i][c] = p.rows[i][c]

\* two rows of one country carry different labels
C6_Witness ==
    /\ pc = "done"
    /\ \E i, j \in 1..Len(Obj("plot_df").rows) :
          /\ i # j
          /\ Obj("plot_df").rows[i][COUNTRY] = Obj("plot_df").rows[j][COUNTRY]
          /\ Obj("plot_df").rows[i][CLUSTER] # Obj("plot_df").rows[j][CLUSTER]

\* C8: a file that exists and is readable never makes the session raise or
\* stop, whatever its contents.
C8_OnlyMissingFileIsFatal ==
    fs.status = "ok" => pc \notin {"stopped", "crashed"}

\* the non-null values of column col of f
Present(f, col) == {i \in 1..Len(f.rows) : f.rows[i][col] # NaN}

\* value v is the k-th smallest of column col of f
IsKth(f, col, v, k) ==
    /\ Cardinality({i \in Present(f, col) : f.rows[i][col] < v}) < k
    /\ k <= Cardinality({i \in Present(f, col) : f.rows[i][col] <= v})

\* m is the median of the non-null values of column col of f
IsMedian(f, col, m) ==
    LET n == Cardinality(Present(f, col))
    IN  /\ n > 0
        /\ \E i, j \in Present(f, col) :
              /\ IsKth(f, col, f.rows[i][col], (n + 1) \div 2)
              /\ IsKth(f, col, f.rows[j][col], (n \div 2) + 1)
              /\ 2 * m = f.rows[i][col] + f.rows[j][col]

\* C9: after imputation every feature value is the country's own value when
\* it has one and the median of the feature's non-null values otherwise, so
\* that no feature value is null.
C9_ImputedByMedian ==
    Bound("cluster_data") =>
        \A i \in 1..Len(Obj("df").rows) : \A c \in Range(features) :
            LET own == Obj("df").rows[i][c]
                filled == Obj("cluster_data").rows[i][c]
            IN  /\ filled # NaN
                /\ own # NaN => filled = own
                /\ own = NaN => IsMedian(Obj("df"), c, filled)

\* C10: the cleaned dataset is the same after every view as right after
\* load: same rows, row order, columns and values, and no Cluster column.
C10_DatasetNeverMutated ==
    Bound("df") =>
        /\ Obj("df") = cache[1].value
        /\ fs.status = "ok" => Obj("df") = CleanFrame(fs.rows)
        /\ CLUSTER \notin Range(Obj("df").columns)

\* every view ran: a ranking reordered the rows, a missing value was imputed
\* and the labels were attached to the plotted copy
C10_Witness ==
    /\ pc = "done"
    /\ Obj("top_10_waste").index # Obj("df").index
    /\ \E i \in 1..Len(Obj("df").rows) :
          Obj("df").rows[i][HOUSEHOLD] = NaN /\ Obj("cluster_data").rows[i][HOUSEHOLD] # NaN
    /\ CLUSTER \in Range(Obj("plot_df").columns)

=============================================================================
